---- MODULE Spec2Model ----
(***************************************************************************)
(* A model of the `mapped` image recolouring library: the colour model    *)
(* (palette.rs), the mapping strategies (mappers.rs, lib.rs), the          *)
(* memoization wrapper (memoize.rs), the scoped-thread work dispatch       *)
(* (procutils.rs, lib.rs) and the Processor / Tracker / ThreadCount types  *)
(* of lib.rs.                                                              *)
(***************************************************************************)
EXTENDS Integers, Sequences, FiniteSets, TLC

VARIABLES
    \* ---- Processor (lib.rs:18-30) and its Tracker (lib.rs:160-164)
    mapper,     \* Processor.mapper: the strategy, by name
    palette,    \* Processor.palette: sequence of Rgbx
    threads,    \* Processor.threads
    image,      \* Processor.data: the pixels of the loaded image, row-major
    progress,   \* Processor.progress: TRUE when it holds a Sender<Signal>
    trk,        \* the Tracker handed out by the latest gen_tracker call
    chan,       \* number of Signals queued in that Tracker's channel
    \* ---- one process / dispatch_and_join call
    pc,         \* position of the calling thread
    parts,      \* the chunks handed to dispatch_and_join
    wstate,     \* per spawned worker: "run", "done" or "panicked"
    wout,       \* per spawned worker: the Vec<u8> collected so far
    ended,      \* TRUE once a worker ended before one spawned earlier did
    joined,     \* the handles the caller has joined so far, in join order
    data,       \* the Vec<u8> the caller assembles
    saved,      \* the buffer the current/last process call passed to save
    outcome,    \* how the current/last call ended: "none", "ok", "panic"
    runs,       \* number of process calls started
    \* ---- Memoized<M> (memoize.rs)
    mem,        \* the DashMap: per pixel key, None or Some(cached output)
    mcalls,     \* how often the wrapped strategy was invoked, per pixel
    mw,         \* per caller thread: its position inside Memoized::predict
    mn,         \* number of predict calls entered so far
    mlog,       \* the latest return: <<>> or <<palette, pixel, value returned>>
    \* ---- pure functions (strategies, ThreadCount)
    fin,        \* the arguments of the call
    fout        \* the value it produced

vars == <<mapper, palette, threads, image, progress, trk, chan, pc, parts,
          wstate, wout, ended, joined, data, saved, outcome, runs, mem,
          mcalls, mw, mn, mlog, fin, fout>>

procVars == <<mapper, palette, threads, image, progress, trk, chan, pc, parts,
              wstate, wout, ended, joined, data, saved, outcome, runs>>
memoVars == <<mem, mcalls, mw, mn, mlog>>
funVars  == <<fin, fout>>

(***************************************************************************)
(* Bounds of the model                                                     *)
(***************************************************************************)
MaxPixels == 2      \* longest image / pixel sequence explored
MaxCores == 6       \* largest available_parallelism() explored by process
MaxRuns == 2        \* process calls per Processor
MaxParts == 3       \* most chunks handed to dispatch_and_join directly
MaxCallers == 2     \* threads calling predict on one Memoized instance
MaxCalls == 3       \* predict calls on one Memoized instance
MaxParallelism == 520   \* largest available_parallelism() given to calculate
MaxPalette == 3     \* longest palette given to the strategies
MaxData == 4        \* longest dataset given to Knn::classify
MaxKnnPalette == 2  \* longest palette given to Knn::predict
MaxLen == 12        \* longest sequence given to subdivide
MaxTimes == 4       \* most rounds of splitting asked of subdivide

\* Option<T>: None is the empty sequence, Some(x) is <<x>>.
None == <<>>
Some(x) == <<x>>
\* The value of a call that unwound (unwrap on None / Err) instead of returning.
PANIC == <<"PANIC">>

(***************************************************************************)
(* palette.rs: the colour model.  An Rgbx is <<red, green, blue, class>>,  *)
(* a pixel is the [u8; 4] <<r, g, b, a>>.                                   *)
(***************************************************************************)
abs_diff(a, b) == IF a >= b THEN a - b ELSE b - a

\* (a variant that rounds toward minus infinity)
FloorDiv(a, b) == a \div b

\* Rust's `/` on signed integers truncates toward zero.
TruncDiv(a, b) == IF a >= 0 THEN a \div b ELSE -((-a) \div b)

\* the value an i16 holds after an operation whose exact result is x
wrap_i16(x) == ((x + 2 ^ 15) % (2 ^ 16)) - 2 ^ 15

\* every operand is widened with `as i16`; `/` binds tighter than `+`
diff_rating(self, rgb_val) ==
    wrap_i16(wrap_i16(wrap_i16(self[1] - rgb_val[1])
                          + wrap_i16(self[2] - rgb_val[2]))
                 + TruncDiv(wrap_i16(self[3] - rgb_val[3]), 3))

manhattan_dist(self, rgb_val) ==
    abs_diff(self[1], rgb_val[1]) + abs_diff(self[2], rgb_val[2])
        + abs_diff(self[3], rgb_val[3])

\* euclidian_dist is the f32 square root of this sum.  The sum is at most
\* 3 * 255^2 < 2^24, so it is exact in f32, and the correctly rounded square
\* root is strictly increasing on such integers: total_cmp on the distances
\* orders exactly as < on the sums, which is all the callers use.
euclidian_dist(self, rgb_val) ==
    abs_diff(self[1], rgb_val[1]) * abs_diff(self[1], rgb_val[1])
        + abs_diff(self[2], rgb_val[2]) * abs_diff(self[2], rgb_val[2])
        + abs_diff(self[3], rgb_val[3]) * abs_diff(self[3], rgb_val[3])

rgba_array(self) == <<self[1], self[2], self[3], 255>>

NORD == <<
    <<216, 222, 233, "Whites">>, <<229, 233, 240, "Whites">>,
    <<236, 239, 244, "Whites">>, <<143, 188, 187, "Blues">>,
    <<136, 192, 208, "Blues">>,  <<129, 161, 193, "Blues">>,
    <<94, 129, 172, "Blues">>,   <<191, 97, 106, "Red">>,
    <<208, 135, 112, "Orange">>, <<235, 203, 139, "Yellow">>,
    <<163, 190, 140, "Green">>,  <<180, 142, 173, "Purple">>,
    <<46, 52, 64, "Greys">>,     <<59, 66, 82, "Greys">>,
    <<67, 76, 94, "Greys">>,     <<76, 86, 106, "Greys">> >>

(***************************************************************************)
(* Iterator::min_by_key / min_by keep the FIRST of several equal minima,   *)
(* Iterator::max_by_key keeps the LAST of several equal maxima.  `items`   *)
(* is a sequence of <<index, key>> pairs, as produced by enumerate().map.  *)
(***************************************************************************)
RECURSIVE min_fold(_, _, _)
min_fold(items, k, best) ==
    IF k > Len(items) THEN best
    ELSE min_fold(items, k + 1,
                  IF items[k][2] < best[2] THEN items[k] ELSE best)

min_by_key(items) ==
    IF items = <<>> THEN None ELSE Some(min_fold(items, 2, items[1]))

RECURSIVE max_fold(_, _, _)
max_fold(items, k, best) ==
    IF k > Len(items) THEN best
    ELSE max_fold(items, k + 1,
                  IF best[2] > items[k][2] THEN best ELSE items[k])

max_by_key(items) ==
    IF items = <<>> THEN None ELSE Some(max_fold(items, 2, items[1]))

\* Iterator::filter on the <<index, key>> pairs.
RECURSIVE filter_ge0(_)
filter_ge0(items) ==
    IF items = <<>> THEN <<>>
    ELSE (IF Head(items)[2] >= 0 THEN <<Head(items)>> ELSE <<>>)
             \o filter_ge0(Tail(items))

RECURSIVE filter_le0(_)
filter_le0(items) ==
    IF items = <<>> THEN <<>>
    ELSE (IF Head(items)[2] <= 0 THEN <<Head(items)>> ELSE <<>>)
             \o filter_le0(Tail(items))

(***************************************************************************)
(* mappers.rs / lib.rs: the strategies.  Each returns a pixel, or PANIC.   *)
(***************************************************************************)
\* (a variant that keeps the entry at the greatest distance)
Nearest_predict_furthest(pal, pixel) ==
    LET pick == max_by_key([i \in 1..Len(pal) |->
                               <<i, manhattan_dist(pal[i], pixel)>>])
    IN  IF pick = None THEN PANIC ELSE rgba_array(pal[pick[1][1]])

\* mappers.rs Nearest: min_by_key over manhattan_dist, then unwrap.
Nearest_predict(pal, pixel) ==
    LET pick == min_by_key([i \in 1..Len(pal) |->
                               <<i, manhattan_dist(pal[i], pixel)>>])
    IN  IF pick = None THEN PANIC ELSE rgba_array(pal[pick[1][1]])

\* lib.rs Nearest (the default strategy of Processor::new): min_by over
\* euclidian_dist with total_cmp, then unwrap.
LibNearest_predict(pal, pixel) ==
    LET pick == min_by_key([i \in 1..Len(pal) |->
                               <<i, euclidian_dist(pal[i], pixel)>>])
    IN  IF pick = None THEN PANIC ELSE rgba_array(pal[pick[1][1]])

\* (a variant that compares with <= where the code compares with <)
Creative_predict_nonstrict(pal, pixel) ==
    LET distances == [i \in 1..Len(pal) |-> <<i, diff_rating(pal[i], pixel)>>]
        pos == min_by_key(filter_ge0(distances))
        neg == max_by_key(filter_le0(distances))
    IN  CASE pos = None /\ neg = None -> pixel
          [] pos # None /\ neg # None ->
                 IF -neg[1][2] <= pos[1][2] THEN rgba_array(pal[neg[1][1]])
                 ELSE rgba_array(pal[pos[1][1]])
          [] pos # None /\ neg = None -> rgba_array(pal[pos[1][1]])
          [] OTHER -> rgba_array(pal[neg[1][1]])

Creative_predict(pal, pixel) ==
    LET distances == [i \in 1..Len(pal) |-> <<i, diff_rating(pal[i], pixel)>>]
        pos == min_by_key(filter_ge0(distances))
        neg == max_by_key(filter_le0(distances))
    IN  CASE pos = None /\ neg = None -> pixel
          [] pos # None /\ neg # None ->
                 IF -neg[1][2] < pos[1][2] THEN rgba_array(pal[neg[1][1]])
                 ELSE rgba_array(pal[pos[1][1]])
          [] pos # None /\ neg = None -> rgba_array(pal[pos[1][1]])
          [] OTHER -> rgba_array(pal[neg[1][1]])

ManualMap_predict(pal, pixel) ==
    IF pixel[1] \in 100..255 /\ pixel[2] = 0 /\ pixel[3] = 0
        THEN rgba_array(NORD[9])
    ELSE IF pixel[1] \in 185..255 /\ pixel[2] \in 0..68 /\ pixel[3] \in 0..68
        THEN rgba_array(NORD[9])
    ELSE pixel

\* Mapper::predict through the trait object the Processor holds.
Predict(m, pal, pixel) ==
    CASE m = "Nearest"   -> LibNearest_predict(pal, pixel)
      [] m = "Creative"  -> Creative_predict(pal, pixel)
      [] m = "ManualMap" -> ManualMap_predict(pal, pixel)

(***************************************************************************)
(* lib.rs: ThreadCount                                                     *)
(***************************************************************************)
\* ThreadCount::new: Ok(Self(val)) or Err(val).
ThreadCount_new(val) ==
    IF val % 2 = 0 /\ val # 0 THEN <<"Ok", val>> ELSE <<"Err", val>>

\* impl Default for ThreadCount: Self(1), built without going through new.
ThreadCount_default == 1

\* ThreadCount::calculate.  `c` is what available_parallelism() gave: 0 for
\* Err, else the NonZeroUsize.  `(c / 2) as u8` keeps the low 8 bits.  The
\* result is <<"Ok", the ThreadCount's u8>>, or PANIC when unwrap meets Err.
ThreadCount_calculate(c) ==
    IF c # 0 /\ c >= 4
        THEN LET r == ThreadCount_new((c \div 2) % 256)
             IN  IF r[1] = "Ok" THEN r ELSE PANIC
    ELSE <<"Ok", ThreadCount_default>>

(***************************************************************************)
(* procutils.rs / lib.rs: subdivide and split_and_push                     *)
(***************************************************************************)
\* (a variant that splits at the rounded-up midpoint)
split_and_push_ceil(sl, vec) ==
    LET mid == (Len(sl) + 1) \div 2
    IN  vec \o <<SubSeq(sl, 1, mid), SubSeq(sl, mid + 1, Len(sl))>>

split_and_push(sl, vec) ==
    LET mid == Len(sl) \div 2
    IN  vec \o <<SubSeq(sl, 1, mid), SubSeq(sl, mid + 1, Len(sl))>>

\* the inner loop: `len` times, split_and_push(parts.remove(0), &mut parts)
RECURSIVE subdivide_pass(_, _)
subdivide_pass(ps, len) ==
    IF len = 0 THEN ps
    ELSE subdivide_pass(split_and_push(Head(ps), Tail(ps)), len - 1)

RECURSIVE subdivide_loop(_, _)
subdivide_loop(ps, times) ==
    IF times = 0 THEN ps
    ELSE subdivide_loop(subdivide_pass(ps, Len(ps)), times - 1)

subdivide(pixels, times) == subdivide_loop(<<pixels>>, times)

(***************************************************************************)
(* Inputs of the Processor model                                           *)
(***************************************************************************)
PxA == <<10, 10, 10, 255>>
PxB == <<200, 30, 30, 128>>
Pixels == {PxA, PxB}

BW == << <<0, 0, 0, "Greys">>, <<255, 255, 255, "Whites">> >>
Palettes == {<<>>, BW, NORD}

Mappers == {"Nearest", "Creative", "ManualMap"}
ThreadsModes == {"Single", "Auto", "Rayon", "Custom", "Extreme"}

SeqsUpTo(S, n) == UNION {[1..k -> S] : k \in 0..n}
\* A decoded image has at least one pixel.
Images == SeqsUpTo(Pixels, MaxPixels) \ {<<>>}

\* what std::thread::available_parallelism() may give: 0 stands for Err
Parallelism == 0..MaxCores

Workers == 1..Len(parts)

Range(f) == {f[i] : i \in DOMAIN f}

\* Iterator::flatten: the concatenation of a sequence of sequences.
RECURSIVE Flatten(_)
Flatten(ss) == IF ss = <<>> THEN <<>> ELSE Head(ss) \o Flatten(Tail(ss))

\* pixels.iter().flat_map(|x| predict(palette, x)).collect::<Vec<u8>>(): the
\* 4-byte results laid end to end in input order, or PANIC when the strategy
\* unwinds on one of the pixels.
MapAll(m, pal, pixels) ==
    IF \E i \in 1..Len(pixels) : Predict(m, pal, pixels[i]) = PANIC
        THEN PANIC
    ELSE Flatten([i \in 1..Len(pixels) |-> Predict(m, pal, pixels[i])])

NoTracker == [id |-> 0, current |-> 0, total |-> 0, alive |-> FALSE]

(***************************************************************************)
(* State after Processor::new(file).load()                                 *)
(***************************************************************************)
IdleRun ==
    /\ pc = "idle"
    /\ parts = <<>>
    /\ wstate = <<>>
    /\ wout = <<>>
    /\ ended = FALSE
    /\ joined = <<>>
    /\ data = <<>>
    /\ saved = None
    /\ outcome = "none"
    /\ runs = 0

NoMemo ==
    /\ mem = <<>>
    /\ mcalls = <<>>
    /\ mw = <<>>
    /\ mn = 0
    /\ mlog = <<>>

NoFun ==
    /\ fin = <<>>
    /\ fout = <<>>

Init ==
    /\ mapper = "Nearest"
    /\ palette = NORD
    /\ threads = "Auto"
    /\ image \in Images
    /\ progress = FALSE
    /\ trk = NoTracker
    /\ chan = 0
    /\ IdleRun
    /\ NoMemo
    /\ NoFun

(***************************************************************************)
(* The builder methods (lib.rs:48-66)                                      *)
(***************************************************************************)
Builder_strategy(m) ==
    /\ pc = "idle"
    /\ mapper' = m
    /\ UNCHANGED <<palette, threads, image, progress, trk, chan, pc, parts,
                   wstate, wout, ended, joined, data, saved, outcome, runs>>
    /\ UNCHANGED <<memoVars, funVars>>

Builder_palette(p) ==
    /\ pc = "idle"
    /\ palette' = p
    /\ UNCHANGED <<mapper, threads, image, progress, trk, chan, pc, parts,
                   wstate, wout, ended, joined, data, saved, outcome, runs>>
    /\ UNCHANGED <<memoVars, funVars>>

Builder_threads(t) ==
    /\ pc = "idle"
    /\ threads' = t
    /\ UNCHANGED <<mapper, palette, image, progress, trk, chan, pc, parts,
                   wstate, wout, ended, joined, data, saved, outcome, runs>>
    /\ UNCHANGED <<memoVars, funVars>>

(***************************************************************************)
(* Processor::gen_tracker and the Tracker (lib.rs:135-146, 174-189)        *)
(***************************************************************************)
\* A fresh channel: the Sender replaces Processor.progress, the Receiver goes
\* into the new Tracker.  The model follows the latest Tracker only: an older
\* one has lost its Sender and can never count further.  `id` tells a Tracker
\* from the one before it (0: none was generated yet).
gen_tracker ==
    /\ pc = "idle"
    /\ progress' = TRUE
    /\ trk' = [id |-> IF trk.id = 1 THEN 2 ELSE 1, current |-> 0,
               total |-> Len(image), alive |-> TRUE]
    /\ chan' = 0
    /\ UNCHANGED <<mapper, palette, threads, image, pc, parts, wstate, wout,
                   ended, joined, data, saved, outcome, runs>>
    /\ UNCHANGED <<memoVars, funVars>>

\* Tracker::track, run by current() and percentage(): drain the channel.
Tracker_track ==
    /\ trk.alive
    /\ trk' = [trk EXCEPT !.current = @ + chan]
    /\ chan' = 0
    /\ UNCHANGED <<mapper, palette, threads, image, progress, pc, parts,
                   wstate, wout, ended, joined, data, saved, outcome, runs>>
    /\ UNCHANGED <<memoVars, funVars>>

\* The consumer drops the Tracker, and with it the Receiver.
Tracker_drop ==
    /\ trk.alive
    /\ trk' = [trk EXCEPT !.alive = FALSE]
    /\ chan' = 0
    /\ UNCHANGED <<mapper, palette, threads, image, progress, pc, parts,
                   wstate, wout, ended, joined, data, saved, outcome, runs>>
    /\ UNCHANGED <<memoVars, funVars>>

\* What current() would return now: track() first, then the field.
Tracker_current == trk.current + chan
\* percentage(): (current / total) * 100 as the fraction num / den.
Tracker_percentage == [num |-> 100 * Tracker_current, den |-> trk.total]

(***************************************************************************)
(* dispatch_and_join (procutils.rs:5-32) / dispatch_and_join2              *)
(* (lib.rs:295-322): one scoped thread per part, joined in spawn order.    *)
(***************************************************************************)
\* notify (lib.rs:32-36): send(Signal).unwrap().  Sending fails, and unwrap
\* panics, exactly when the Receiver has been dropped.
notify_panics == progress /\ ~trk.alive

\* The number of pixels worker w has mapped: 4 bytes were pushed for each.
Mapped(w) == Len(wout[w]) \div 4

\* `ended` as worker w's thread ends: does it overtake an earlier worker?
EndsAfter(w) == ended \/ \E v \in 1..(w - 1) : wstate[v] = "run"

\* A worker maps the next pixel of its part, then notifies.
Worker_pixel(w) ==
    /\ pc \in {"join", "unwind"}
    /\ wstate[w] = "run"
    /\ Mapped(w) < Len(parts[w])
    /\ LET r == Predict(mapper, palette, parts[w][Mapped(w) + 1])
       IN  IF r = PANIC \/ notify_panics
               THEN /\ wstate' = [wstate EXCEPT ![w] = "panicked"]
                    /\ ended' = EndsAfter(w)
                    /\ UNCHANGED <<wout, chan>>
           ELSE /\ wout' = [wout EXCEPT ![w] = @ \o r]
                /\ chan' = IF progress THEN chan + 1 ELSE chan
                /\ UNCHANGED <<wstate, ended>>
    /\ UNCHANGED <<mapper, palette, threads, image, progress, trk, pc, parts,
                   joined, data, saved, outcome, runs>>
    /\ UNCHANGED <<memoVars, funVars>>

\* The worker's iterator is exhausted: collect() returns and the thread ends.
Worker_finish(w) ==
    /\ pc \in {"join", "unwind"}
    /\ wstate[w] = "run"
    /\ Mapped(w) = Len(parts[w])
    /\ wstate' = [wstate EXCEPT ![w] = "done"]
    /\ ended' = EndsAfter(w)
    /\ UNCHANGED <<mapper, palette, threads, image, progress, trk, chan, pc,
                   parts, wout, joined, data, saved, outcome, runs>>
    /\ UNCHANGED <<memoVars, funVars>>

\* (a variant that joins whichever unjoined worker has already ended)
JoinTarget_completion_order ==
    LET over == {w \in Workers :
                    wstate[w] # "run" /\ w \notin Range(joined)}
    IN  IF Len(joined) >= Len(parts) THEN {}
        ELSE IF over # {} THEN over
        ELSE {Len(joined) + 1}

\* `for h in handles`: the handle the caller joins next is the next one in
\* spawn order.
JoinTarget ==
    IF Len(joined) < Len(parts) THEN {Len(joined) + 1} ELSE {}

\* (a variant that swallows a worker's panic and keeps what it collected)
join_unwrap_never_panics(w) == FALSE

\* h.join() gives Err, and unwrap panics, exactly when worker w panicked.
join_unwrap_panics(w) == wstate[w] = "panicked"

\* h.join().unwrap(): blocks until worker w has ended; appends its Vec, or
\* panics when the worker panicked (the partial `data` is dropped).
Join(w) ==
    /\ pc = "join"
    /\ w \in JoinTarget
    /\ wstate[w] # "run"
    /\ joined' = Append(joined, w)
    /\ IF join_unwrap_panics(w)
           THEN data' = <<>> /\ pc' = "unwind"
       ELSE data' = data \o wout[w] /\ pc' = pc
    /\ UNCHANGED <<mapper, palette, threads, image, progress, trk, chan,
                   parts, wstate, wout, ended, saved, outcome, runs>>
    /\ UNCHANGED <<memoVars, funVars>>

\* Every handle is joined: the scope closure returns `data`.
Dispatch_return ==
    /\ pc = "join"
    /\ JoinTarget = {}
    /\ pc' = "returned"
    /\ UNCHANGED <<mapper, palette, threads, image, progress, trk, chan,
                   parts, wstate, wout, ended, joined, data, saved, outcome, runs>>
    /\ UNCHANGED <<memoVars, funVars>>

\* The closure panicked: thread::scope waits for every spawned thread, then
\* resumes the panic in the caller.
Dispatch_unwind ==
    /\ pc = "unwind"
    /\ \A w \in Workers : wstate[w] # "run"
    /\ pc' = "unwound"
    /\ UNCHANGED <<mapper, palette, threads, image, progress, trk, chan,
                   parts, wstate, wout, ended, joined, data, saved, outcome, runs>>
    /\ UNCHANGED <<memoVars, funVars>>

(***************************************************************************)
(* Processor::process (lib.rs:110-133)                                     *)
(***************************************************************************)
CanProcess == pc = "idle" /\ runs < MaxRuns

\* Threads::Single, Auto, Custom(_) => ()
Process_unit ==
    /\ CanProcess
    /\ threads \in {"Single", "Auto", "Custom"}
    /\ runs' = runs + 1
    /\ saved' = None
    /\ outcome' = "ok"
    /\ UNCHANGED <<mapper, palette, threads, image, progress, trk, chan, pc,
                   parts, wstate, wout, ended, joined, data>>
    /\ UNCHANGED <<memoVars, funVars>>

\* Threads::Rayon: par_iter().flat_map(predict).collect(), then save.  The
\* collect keeps the input order; a panicking closure unwinds process.
Process_rayon ==
    /\ CanProcess
    /\ threads = "Rayon"
    /\ runs' = runs + 1
    /\ LET buf == MapAll(mapper, palette, image)
       IN  IF buf = PANIC
               THEN saved' = None /\ outcome' = "panic"
           ELSE saved' = Some(buf) /\ outcome' = "ok"
    /\ UNCHANGED <<mapper, palette, threads, image, progress, trk, chan, pc,
                   parts, wstate, wout, ended, joined, data>>
    /\ UNCHANGED <<memoVars, funVars>>

\* Threads::Extreme: subdivide(&img_pixels, *ThreadCount::calculate()), then
\* dispatch_and_join2 spawns one worker per part.
Process_extreme(c) ==
    /\ CanProcess
    /\ threads = "Extreme"
    /\ runs' = runs + 1
    /\ saved' = None
    /\ UNCHANGED <<joined, data>>
    /\ LET t == ThreadCount_calculate(c)
       IN  IF t = PANIC
               THEN /\ outcome' = "panic"
                    /\ UNCHANGED <<pc, parts, wstate, wout, ended>>
           ELSE /\ outcome' = "none"
                /\ pc' = "join"
                /\ parts' = subdivide(image, t[2])
                /\ wstate' = [w \in 1..Len(subdivide(image, t[2])) |-> "run"]
                /\ wout' = [w \in 1..Len(subdivide(image, t[2])) |-> <<>>]
                /\ ended' = FALSE
    /\ UNCHANGED <<mapper, palette, threads, image, progress, trk, chan>>
    /\ UNCHANGED <<memoVars, funVars>>

\* The locals of a finished call are gone.
DropLocals ==
    /\ parts' = <<>>
    /\ wstate' = <<>>
    /\ wout' = <<>>
    /\ ended' = FALSE
    /\ joined' = <<>>
    /\ data' = <<>>

\* self.save(&buf)?; Ok(())
Process_save ==
    /\ pc = "returned"
    /\ saved' = Some(data)
    /\ outcome' = "ok"
    /\ pc' = "idle"
    /\ DropLocals
    /\ UNCHANGED <<mapper, palette, threads, image, progress, trk, chan, runs>>
    /\ UNCHANGED <<memoVars, funVars>>

\* the panic of dispatch_and_join2 leaves process: nothing is saved
Process_unwind ==
    /\ pc = "unwound"
    /\ outcome' = "panic"
    /\ pc' = "idle"
    /\ DropLocals
    /\ UNCHANGED <<mapper, palette, threads, image, progress, trk, chan,
                   saved, runs>>
    /\ UNCHANGED <<memoVars, funVars>>

Next ==
    \/ \E m \in Mappers : Builder_strategy(m)
    \/ \E p \in Palettes : Builder_palette(p)
    \/ \E t \in ThreadsModes : Builder_threads(t)
    \/ gen_tracker
    \/ Tracker_track
    \/ Tracker_drop
    \/ Process_unit
    \/ Process_rayon
    \/ \E c \in Parallelism : Process_extreme(c)
    \/ \E w \in Workers : Worker_pixel(w)
    \/ \E w \in Workers : Worker_finish(w)
    \/ \E w \in Workers : Join(w)
    \/ Dispatch_return
    \/ Dispatch_unwind
    \/ Process_save
    \/ Process_unwind

Spec == Init /\ [][Next]_vars

(***************************************************************************)
(* dispatch_and_join called on an arbitrary list of parts                  *)
(***************************************************************************)
Partitions ==
    {ps \in SeqsUpTo(SeqsUpTo(Pixels, MaxPixels), MaxParts) :
        Len(Flatten(ps)) <= MaxPixels}

InitDispatch ==
    /\ mapper \in Mappers
    /\ palette \in Palettes
    /\ threads = "Extreme"
    /\ parts \in Partitions
    /\ image = Flatten(parts)
    /\ progress \in BOOLEAN
    /\ trk = IF progress
                 THEN [id |-> 1, current |-> 0, total |-> Len(image),
                       alive |-> TRUE]
             ELSE NoTracker
    /\ chan = 0
    /\ pc = "join"
    /\ wstate = [w \in 1..Len(parts) |-> "run"]
    /\ wout = [w \in 1..Len(parts) |-> <<>>]
    /\ ended = FALSE
    /\ joined = <<>>
    /\ data = <<>>
    /\ saved = None
    /\ outcome = "none"
    /\ runs = 0
    /\ NoMemo
    /\ NoFun

NextDispatch ==
    \/ \E w \in Workers : Worker_pixel(w)
    \/ \E w \in Workers : Worker_finish(w)
    \/ \E w \in Workers : Join(w)
    \/ Dispatch_return
    \/ Dispatch_unwind
    \/ Tracker_track
    \/ Tracker_drop

SpecDispatch == InitDispatch /\ [][NextDispatch]_vars

(***************************************************************************)
(* Properties of the dispatch and of the Processor                         *)
(***************************************************************************)
\* The 4 bytes at [4(i-1), 4i) of a byte buffer (i counts pixels from 1).
PixelAt(buf, i) == SubSeq(buf, 4 * (i - 1) + 1, 4 * i)

\* C1: whatever the partition into chunks and whatever the order in which
\* the workers end, the buffer dispatch_and_join returns has 4 * len(input)
\* bytes and its bytes [4i, 4i+4) are predict(palette, input[i]): the results
\* are put together in spawn order.
C1_DispatchKeepsOrder ==
    pc = "returned" =>
        /\ Len(data) = 4 * Len(image)
        /\ \A i \in 1..Len(image) :
               PixelAt(data, i) = Predict(mapper, palette, image[i])

\* C1 witness: a call returned although a later worker ended before an
\* earlier one, on an input whose first two pixels map to different colours
\* that lie in different chunks.
C1_Witness ==
    /\ pc = "returned"
    /\ ended
    /\ Len(parts) >= 2
    /\ Len(image) >= 2
    /\ Len(parts[1]) = 1
    /\ PixelAt(data, 1) # PixelAt(data, 2)

\* a step that ends a process call
RunEnds == pc' = "idle" /\ (runs' # runs \/ pc # "idle")

\* C2 (as claimed): a process call that completes has saved, in every
\* concurrency mode, the bytes the sequential per-pixel map of the image
\* gives.
C2_ModesAgree ==
    [][(RunEnds /\ outcome' = "ok")
          => saved' = Some(MapAll(mapper, palette, image))]_vars

\* C3 (as claimed): when a process call completes and a Tracker generated
\* before the call is alive, current() gives W*H and percentage() gives 100.
C3_TrackerComplete ==
    [][(RunEnds /\ outcome' = "ok" /\ progress /\ trk.alive)
          => /\ Tracker_current' = trk.total
             /\ Tracker_percentage'.num = 100 * Tracker_percentage'.den]_vars

\* C6: once a worker has panicked, dispatch_and_join returns no buffer and
\* process saves none; the call ends as one panic, and a call that ended in
\* a panic has saved nothing.
C6_FaultFailsRun ==
    /\ []((\E w \in Workers : wstate[w] = "panicked")
            => pc # "returned" /\ saved = None /\ outcome = "none")
    /\ [](outcome = "panic" => saved = None)
    /\ [][((\E w \in Workers : wstate[w] = "panicked") /\ pc' = "idle")
            => outcome' = "panic" /\ saved' = None]_vars

\* C6 witness: the scope has unwound after one worker panicked while
\* another had completed its chunk.
C6_Witness ==
    /\ pc = "unwound"
    /\ \E w \in Workers : wstate[w] = "panicked"
    /\ \E w \in Workers : wstate[w] = "done" /\ wout[w] # <<>>

\* C8 (as claimed): the count a Tracker reports never exceeds total(), so
\* percentage() lies in [0, 100].
C8_CountWithinTotal ==
    trk.id # 0 =>
        /\ Tracker_current <= trk.total
        /\ Tracker_percentage.num >= 0
        /\ Tracker_percentage.num <= 100 * Tracker_percentage.den

\* The other half of C8: the count of one Tracker never decreases.
Tracker_monotonic ==
    [][(trk'.id = trk.id /\ trk'.alive)
          => Tracker_current' >= Tracker_current]_vars

(***************************************************************************)
(* memoize.rs: Memoized<M>, one instance shared by the calling threads.    *)
(* `mapper` is the wrapped strategy.  A predict call is three steps: the   *)
(* DashMap lookup, the wrapped predict on a miss, and the insert.          *)
(***************************************************************************)
Callers == DOMAIN mw

\* a caller that is outside predict
IdleCaller == [pc |-> "idle", pal |-> <<>>, px |-> <<>>, pred |-> <<>>]

InitMemo ==
    /\ mapper \in Mappers
    /\ palette = NORD
    /\ threads = "Auto"
    /\ image = <<>>
    /\ progress = FALSE
    /\ trk = NoTracker
    /\ chan = 0
    /\ IdleRun
    /\ mem = [q \in Pixels |-> None]
    /\ mcalls = [q \in Pixels |-> 0]
    /\ mw \in {[t \in 1..k |-> IdleCaller] : k \in 1..MaxCallers}
    /\ mn = 0
    /\ mlog = <<>>
    /\ NoFun

\* (a variant whose lookup never finds the key)
DashMap_get_miss(pixel) == None

\* self.mem.get(pixel)
DashMap_get(pixel) == mem[pixel]

\* `if let Some(v) = self.mem.get(pixel) { *v } else { .. }`: caller t enters
\* predict(pal, pixel); on a hit it returns the cached value at once.
Memoized_get(t, pal, pixel) ==
    /\ mw[t].pc = "idle"
    /\ mn < MaxCalls
    /\ mn' = mn + 1
    /\ LET v == DashMap_get(pixel)
       IN  IF v # None
               THEN /\ mlog' = <<pal, pixel, v[1]>>
                    /\ UNCHANGED mw
           ELSE /\ mw' = [mw EXCEPT ![t] = [pc |-> "miss", pal |-> pal,
                                            px |-> pixel, pred |-> <<>>]]
                /\ UNCHANGED mlog
    /\ UNCHANGED <<mem, mcalls>>
    /\ UNCHANGED <<procVars, funVars>>

\* `let pred = self.mapper.predict(palette, pixel);` -- a panic ends thread t
Memoized_compute(t) ==
    /\ mw[t].pc = "miss"
    /\ mcalls' = [mcalls EXCEPT ![mw[t].px] = @ + 1]
    /\ LET pred == Predict(mapper, mw[t].pal, mw[t].px)
       IN  IF pred = PANIC
               THEN mw' = [mw EXCEPT ![t] = [IdleCaller EXCEPT !.pc = "dead"]]
           ELSE mw' = [mw EXCEPT ![t].pc = "computed", ![t].pred = pred]
    /\ UNCHANGED <<mem, mn, mlog>>
    /\ UNCHANGED <<procVars, funVars>>

\* `self.mem.insert(*pixel, pred); pred`
Memoized_insert(t) ==
    /\ mw[t].pc = "computed"
    /\ mem' = [mem EXCEPT ![mw[t].px] = Some(mw[t].pred)]
    /\ mlog' = <<mw[t].pal, mw[t].px, mw[t].pred>>
    /\ mw' = [mw EXCEPT ![t] = IdleCaller]
    /\ UNCHANGED <<mcalls, mn>>
    /\ UNCHANGED <<procVars, funVars>>

NextMemo ==
    \/ \E t \in Callers, pal \in Palettes, pixel \in Pixels :
           Memoized_get(t, pal, pixel)
    \/ \E t \in Callers : Memoized_compute(t)
    \/ \E t \in Callers : Memoized_insert(t)

SpecMemo == InitMemo /\ [][NextMemo]_vars

\* C4 (as claimed): whatever the sequence and interleaving of calls, what a
\* Memoized(M).predict(palette, pixel) returns is M.predict(palette, pixel).
C4_MemoTransparent ==
    mlog # <<>> => mlog[3] = Predict(mapper, mlog[1], mlog[2])

\* C5: the wrapped strategy is invoked only by a caller whose lookup missed,
\* and a lookup misses only for a key that is not cached; a predict entered
\* for a cached key returns the stored value at once and invokes nothing; a
\* key once inserted stays; so a single sequential caller invokes the
\* wrapped strategy at most once per pixel value.
C5_MemoCaches ==
    /\ [][/\ \A q \in Pixels :
                mcalls'[q] # mcalls[q] =>
                    \E t \in Callers : mw[t].pc = "miss" /\ mw[t].px = q
          /\ \A t \in Callers :
                (mw[t].pc = "idle" /\ mw'[t].pc = "miss")
                    => mem[mw'[t].px] = None
          /\ (mn' # mn /\ mw' = mw) =>
                /\ mlog' # <<>>
                /\ mem[mlog'[2]] = Some(mlog'[3])
                /\ mcalls' = mcalls
          /\ \A q \in Pixels : mem[q] # None => mem'[q] # None]_vars
    /\ [](Cardinality(Callers) = 1 => \A q \in Pixels : mcalls[q] <= 1)

\* C5 witness: a single caller has called predict three times, twice for
\* one pixel; the repeated call was answered from the cache and the
\* strategy ran once per pixel.
C5_Witness ==
    /\ Cardinality(Callers) = 1
    /\ mn = 3
    /\ mw[1].pc = "idle"
    /\ \A q \in Pixels : mcalls[q] = 1
    /\ mlog # <<>>
    /\ mem[mlog[2]] = Some(mlog[3])

(***************************************************************************)
(* ThreadCount on its own: one call of new, default or calculate           *)
(***************************************************************************)
U8 == 0..255

InitThreadCount ==
    /\ mapper = "Nearest"
    /\ palette = NORD
    /\ threads = "Auto"
    /\ image = <<>>
    /\ progress = FALSE
    /\ trk = NoTracker
    /\ chan = 0
    /\ IdleRun
    /\ NoMemo
    /\ fin \in [op : {"new"}, arg : U8]
              \cup [op : {"default"}, arg : {0}]
              \cup [op : {"calculate"}, arg : 0..MaxParallelism]
    /\ fout = <<>>

Call_new ==
    /\ fin.op = "new"
    /\ fout = <<>>
    /\ fout' = ThreadCount_new(fin.arg)
    /\ UNCHANGED <<procVars, memoVars, fin>>

Call_default ==
    /\ fin.op = "default"
    /\ fout = <<>>
    /\ fout' = <<"Ok", ThreadCount_default>>
    /\ UNCHANGED <<procVars, memoVars, fin>>

\* fin.arg is what available_parallelism() gives (0: Err)
Call_calculate ==
    /\ fin.op = "calculate"
    /\ fout = <<>>
    /\ fout' = ThreadCount_calculate(fin.arg)
    /\ UNCHANGED <<procVars, memoVars, fin>>

NextThreadCount == Call_new \/ Call_default \/ Call_calculate

SpecThreadCount == InitThreadCount /\ [][NextThreadCount]_vars

\* C7 (as claimed): every ThreadCount that comes to exist, through new, the
\* default or calculate, is a value new accepts, and deriving it never
\* panics.
C7_ThreadCountValid ==
    fout # <<>> =>
        /\ fout # PANIC
        /\ fout[1] = "Ok" => ThreadCount_new(fout[2])[1] = "Ok"

(***************************************************************************)
(* The strategies on their own: one predict call                           *)
(***************************************************************************)
Colours == { <<0, 0, 0, "Greys">>, <<3, 3, 3, "Greys">>, <<6, 0, 0, "Red">>,
             <<0, 6, 0, "Green">>, <<0, 0, 4, "Blues">>,
             <<255, 255, 255, "Whites">> }
TestPixels == { <<0, 0, 0, 255>>, <<3, 0, 0, 77>>, <<3, 3, 3, 0>>,
                <<5, 1, 2, 128>> }

InitMappers ==
    /\ mapper = "Nearest"
    /\ palette = NORD
    /\ threads = "Auto"
    /\ image = <<>>
    /\ progress = FALSE
    /\ trk = NoTracker
    /\ chan = 0
    /\ IdleRun
    /\ NoMemo
    /\ fin \in [op : {"Nearest", "NearestTwice", "LibNearest", "Creative"},
                pal : SeqsUpTo(Colours, MaxPalette), px : TestPixels]
    /\ fout = <<>>

\* mappers.rs Nearest
Call_Nearest ==
    /\ fin.op = "Nearest"
    /\ fout = <<>>
    /\ fout' = Nearest_predict(fin.pal, fin.px)
    /\ UNCHANGED <<procVars, memoVars, fin>>

\* lib.rs Nearest
Call_LibNearest ==
    /\ fin.op = "LibNearest"
    /\ fout = <<>>
    /\ fout' = LibNearest_predict(fin.pal, fin.px)
    /\ UNCHANGED <<procVars, memoVars, fin>>

Call_Creative ==
    /\ fin.op = "Creative"
    /\ fout = <<>>
    /\ fout' = Creative_predict(fin.pal, fin.px)
    /\ UNCHANGED <<procVars, memoVars, fin>>

\* mappers.rs Nearest, then once more on the pixel it returned
Call_NearestTwice ==
    /\ fin.op = "NearestTwice"
    /\ fout = <<>>
    /\ LET first == Nearest_predict(fin.pal, fin.px)
       IN  fout' = IF first = PANIC THEN PANIC
                   ELSE <<first, Nearest_predict(fin.pal, first)>>
    /\ UNCHANGED <<procVars, memoVars, fin>>

NextMappers ==
    Call_Nearest \/ Call_NearestTwice \/ Call_LibNearest \/ Call_Creative

SpecMappers == InitMappers /\ [][NextMappers]_vars

Min(S) == CHOOSE x \in S : \A y \in S : x <= y
Max(S) == CHOOSE x \in S : \A y \in S : x >= y

\* the first palette index at the least Manhattan distance from the pixel
FirstManhattanMin(pal, px) ==
    Min({i \in 1..Len(pal) :
            \A j \in 1..Len(pal) :
                manhattan_dist(pal[i], px) <= manhattan_dist(pal[j], px)})

\* C9 (as claimed): on a non-empty palette a Nearest strategy returns the RGB
\* of the entry at the least Manhattan distance from the pixel, the first
\* such entry in palette order, with alpha 255.
C9_NearestManhattan ==
    (fout # <<>> /\ fin.op \in {"Nearest", "LibNearest"} /\ fin.pal # <<>>)
        => fout = rgba_array(fin.pal[FirstManhattanMin(fin.pal, fin.px)])

\* The same for the Nearest of mappers.rs alone.
MappersNearest_manhattan ==
    (fout # <<>> /\ fin.op = "Nearest" /\ fin.pal # <<>>)
        => fout = rgba_array(fin.pal[FirstManhattanMin(fin.pal, fin.px)])

Ratings(pal, px) == [i \in 1..Len(pal) |-> diff_rating(pal[i], px)]
\* the RGBA of the palette entries rated r
Rated(pal, px, r) ==
    {rgba_array(pal[i]) : i \in {j \in 1..Len(pal) : Ratings(pal, px)[j] = r}}

\* C10: with pos the least rating >= 0 and neg the greatest rating <= 0,
\* Creative returns an entry rated neg only when -neg < pos, an entry rated
\* pos otherwise (also on a tie), the one side that exists when the other
\* has no candidate, and the pixel itself, alpha included, when neither has.
C10_CreativeChoice ==
    (fout # <<>> /\ fin.op = "Creative") =>
        LET rs == Range(Ratings(fin.pal, fin.px))
            P == {r \in rs : r >= 0}
            N == {r \in rs : r <= 0}
        IN  /\ (P = {} /\ N = {}) => fout = fin.px
            /\ (P # {} /\ N = {}) => fout \in Rated(fin.pal, fin.px, Min(P))
            /\ (P = {} /\ N # {}) => fout \in Rated(fin.pal, fin.px, Max(N))
            /\ (P # {} /\ N # {} /\ -Max(N) < Min(P))
                   => fout \in Rated(fin.pal, fin.px, Max(N))
            /\ (P # {} /\ N # {} /\ -Max(N) >= Min(P))
                   => fout \in Rated(fin.pal, fin.px, Min(P))

\* C10 witness: a tie, -neg = pos with both nonzero, was decided for the
\* entry rated pos.
C10_Witness ==
    /\ fout # <<>>
    /\ fin.op = "Creative"
    /\ LET rs == Range(Ratings(fin.pal, fin.px))
           P == {r \in rs : r >= 0}
           N == {r \in rs : r <= 0}
       IN  /\ P # {} /\ N # {}
           /\ Min(P) > 0
           /\ -Max(N) = Min(P)
           /\ fout \in Rated(fin.pal, fin.px, Min(P))
           /\ fout \notin Rated(fin.pal, fin.px, Max(N))

\* C14: on a non-empty palette, duplicate and equidistant colours included,
\* Nearest applied to the pixel Nearest returned gives that same pixel.
C14_NearestIdempotent ==
    (fout # <<>> /\ fin.op = "NearestTwice" /\ fin.pal # <<>>) =>
        fout[2] = fout[1]

\* C14 witness: the palette holds a colour twice and two different colours
\* at the same least distance from the pixel, which is itself no palette
\* colour; the second pass returned what the first did.
C14_Witness ==
    /\ fout # <<>>
    /\ fin.op = "NearestTwice"
    /\ Len(fin.pal) = MaxPalette
    /\ \E i, j \in 1..Len(fin.pal) : i # j /\ fin.pal[i] = fin.pal[j]
    /\ \E i, j \in 1..Len(fin.pal) :
          /\ rgba_array(fin.pal[i]) # rgba_array(fin.pal[j])
          /\ manhattan_dist(fin.pal[i], fin.px) = manhattan_dist(fin.pal[j], fin.px)
          /\ \A h \in 1..Len(fin.pal) :
                manhattan_dist(fin.pal[i], fin.px) <= manhattan_dist(fin.pal[h], fin.px)
    /\ \A i \in 1..Len(fin.pal) : manhattan_dist(fin.pal[i], fin.px) > 0
    /\ fout[2] = fout[1]

(***************************************************************************)
(* mappers.rs / lib.rs: Knn                                                *)
(***************************************************************************)
\* Vec::sort_by(|x, y| x.0.total_cmp(&y.0)): a stable sort on the distance,
\* entries at equal distance keep their order.
RECURSIVE sort_insert(_, _)
sort_insert(sorted, x) ==
    IF sorted = <<>> THEN <<x>>
    ELSE IF x[1] < Head(sorted)[1] THEN <<x>> \o sorted
    ELSE <<Head(sorted)>> \o sort_insert(Tail(sorted), x)

RECURSIVE sort_by(_)
sort_by(items) ==
    IF items = <<>> THEN <<>>
    ELSE sort_insert(sort_by(SubSeq(items, 1, Len(items) - 1)),
                     items[Len(items)])

\* Rgbx::group
group(self) == self[4]

\* ColorClass::weight: 0 for every class
weight(g) == 0

\* `ratings`: (euclidian_dist, group) of every dataset entry, sorted
Knn_ratings(c, dataset) ==
    sort_by([i \in 1..Len(dataset) |->
                <<euclidian_dist(dataset[i], c), group(dataset[i])>>])

\* `ratings[..=k]` is out of range, and panics, when k >= ratings.len()
Knn_slice_panics(k, dataset) == k >= Len(dataset)

\* `ratings[..=k]`: the entries at indices 0..=k
Knn_counted(c, k, dataset) == SubSeq(Knn_ratings(c, dataset), 1, k + 1)

\* `vote_map` after the loop: the first entry of a class inserts 0, every
\* further one adds 1
Knn_vote_map(neigh) ==
    [g \in {neigh[i][2] : i \in 1..Len(neigh)} |->
        Cardinality({i \in 1..Len(neigh) : neigh[i][2] = g}) - 1]

\* the value max_by_key compares: v + k.weight() when weighted, else v
Knn_vote(vm, g, weighted) == IF weighted THEN vm[g] + weight(g) ELSE vm[g]

\* `(grp, count)`: max_by_key over the map's iterator keeps the last maximum
\* in iteration order, and a hash map iterates in no specified order: any
\* class with the greatest value can come out as grp.
Knn_leaders(vm, weighted) ==
    {g \in DOMAIN vm :
        \A h \in DOMAIN vm : Knn_vote(vm, h, weighted) <= Knn_vote(vm, g, weighted)}

\* (a variant that leaves the leading class in the pool)
Knn_candidates_with_leader(vm, count, grp) ==
    {g \in DOMAIN vm : vm[g] = count}

\* `candidates`: the classes with `v == &count && g != grp`
Knn_candidates(vm, count, grp) ==
    {g \in DOMAIN vm : vm[g] = count /\ g # grp}

\* what classify returns once grp is fixed: grp itself, or
\* candidates[fastrand::usize(..l)], any of the candidates
Knn_pick(vm, grp, random, weighted) ==
    IF random
        THEN LET cs == Knn_candidates(vm, Knn_vote(vm, grp, weighted), grp)
             IN  IF cs = {} THEN {grp} ELSE cs
    ELSE {grp}

KnnPanic == [ok |-> FALSE, counted |-> <<>>, grp |-> "none", class |-> "none"]

\* Knn::classify: the outcomes it can have, each with the neighbours counted
\* and the leading class it went through.
Knn_classify(c, k, dataset, random, weighted) ==
    IF Knn_slice_panics(k, dataset) THEN {KnnPanic}
    ELSE LET neigh == Knn_counted(c, k, dataset)
             vm == Knn_vote_map(neigh)
         IN  {[ok |-> TRUE, counted |-> neigh, grp |-> g, class |-> cl] :
                 <<g, cl>> \in
                     {gc \in Knn_leaders(vm, weighted) \X DOMAIN vm :
                         gc[2] \in Knn_pick(vm, gc[1], random, weighted)}}

\* Knn::predict after classify gave grp: the palette entries of class grp,
\* min_by on the distance (the first of equal minima), unwrap.
Knn_nearest_in_class(pal, pixel, grp) ==
    LET idx == {i \in 1..Len(pal) : group(pal[i]) = grp}
        pick == {i \in idx :
                    \A j \in idx :
                        \/ euclidian_dist(pal[i], pixel) < euclidian_dist(pal[j], pixel)
                        \/ (euclidian_dist(pal[i], pixel) = euclidian_dist(pal[j], pixel)
                               /\ i <= j)}
    IN  IF idx = {} THEN [ok |-> FALSE, grp |-> grp, out |-> <<>>]
        ELSE [ok |-> TRUE, grp |-> grp,
              out |-> rgba_array(pal[CHOOSE i \in pick : TRUE])]

\* Knn::predict, with `dataset` for SYN_DATA_SET
Knn_predict(k, dataset, pal, pixel) ==
    {IF cl.ok THEN Knn_nearest_in_class(pal, pixel, cl.class)
     ELSE [ok |-> FALSE, grp |-> "none", out |-> <<>>] :
        cl \in Knn_classify(pixel, k, dataset, TRUE, FALSE)}

(***************************************************************************)
(* Knn on its own: one classify or predict call                            *)
(***************************************************************************)
KnnColours == { <<0, 0, 0, "Greys">>, <<6, 0, 0, "Red">>, <<0, 0, 4, "Blues">> }
KnnPaletteColours == { <<0, 0, 0, "Greys">>, <<6, 0, 0, "Red">>,
                       <<200, 0, 0, "Red">> }
KnnPixels == { <<0, 0, 0, 255>>, <<5, 0, 1, 128>> }

InitKnn ==
    /\ mapper = "Nearest"
    /\ palette = NORD
    /\ threads = "Auto"
    /\ image = <<>>
    /\ progress = FALSE
    /\ trk = NoTracker
    /\ chan = 0
    /\ IdleRun
    /\ NoMemo
    /\ fin \in [op : {"classify"}, c : KnnPixels, k : 0..(MaxData + 1),
                dataset : SeqsUpTo(KnnColours, MaxData),
                random : BOOLEAN, weighted : BOOLEAN, pal : {<<>>}]
          \cup [op : {"predict"}, c : KnnPixels, k : 0..(MaxData + 1),
                dataset : SeqsUpTo(KnnColours, MaxData),
                random : {TRUE}, weighted : {FALSE},
                pal : SeqsUpTo(KnnPaletteColours, MaxKnnPalette)]
    /\ fout = <<>>

Call_classify ==
    /\ fin.op = "classify"
    /\ fout = <<>>
    /\ fout' \in Knn_classify(fin.c, fin.k, fin.dataset, fin.random,
                              fin.weighted)
    /\ UNCHANGED <<procVars, memoVars, fin>>

Call_Knn_predict ==
    /\ fin.op = "predict"
    /\ fout = <<>>
    /\ fout' \in Knn_predict(fin.k, fin.dataset, fin.pal, fin.c)
    /\ UNCHANGED <<procVars, memoVars, fin>>

NextKnn == Call_classify \/ Call_Knn_predict

SpecKnn == InitKnn /\ [][NextKnn]_vars

\* the number of entries of class g among the neighbours counted
Occurrences(neigh, g) == Cardinality({i \in 1..Len(neigh) : neigh[i][2] = g})

\* C11 (as claimed): for every k from 1 up to the size of the dataset,
\* classify returns a class, and the neighbours whose votes it counted are
\* exactly k entries, the k nearest to the pixel by Euclidean distance.
C11_ExactlyKNearest ==
    (fout # <<>> /\ fin.op = "classify"
         /\ fin.k >= 1 /\ fin.k <= Len(fin.dataset)) =>
        /\ fout.ok
        /\ Len(fout.counted) = fin.k
        /\ fout.counted = SubSeq(Knn_ratings(fin.c, fin.dataset), 1, fin.k)

\* C12: in random mode the class classify returns has the greatest number
\* of entries among the neighbours counted; it is the leading class when no
\* other class has as many, and otherwise a class other than the leading one
\* that has as many.
C12_RandomTieBreak ==
    (fout # <<>> /\ fin.op = "classify" /\ fin.random /\ fout.ok) =>
        LET classes == {fout.counted[i][2] : i \in 1..Len(fout.counted)}
            top == Max({Occurrences(fout.counted, g) : g \in classes})
            tied == {g \in classes : Occurrences(fout.counted, g) = top}
        IN  /\ fout.class \in tied
            /\ fout.grp \in tied
            /\ tied = {fout.grp} => fout.class = fout.grp
            /\ tied # {fout.grp} => fout.class # fout.grp

\* C12 witness: two classes had as many of the counted neighbours, and the
\* one returned is not the leading one.
C12_Witness ==
    /\ fout # <<>>
    /\ fin.op = "classify"
    /\ fin.random
    /\ fout.ok
    /\ fin.k >= 2
    /\ Occurrences(fout.counted, fout.class) = 2
    /\ Occurrences(fout.counted, fout.grp) = 2
    /\ fout.class # fout.grp

\* C18 (as claimed): on a non-empty palette, once classify has given a
\* class, predict returns the RGBA of the first Euclidean-nearest palette
\* entry of that class, and it returns also when the palette has no entry
\* of that class.
C18_KnnPredictInClass ==
    (fout # <<>> /\ fin.op = "predict" /\ fin.pal # <<>>
         /\ fout.grp # "none") =>
        /\ fout.ok
        /\ \E i \in 1..Len(fin.pal) :
              /\ group(fin.pal[i]) = fout.grp
              /\ fout.out = rgba_array(fin.pal[i])
              /\ \A j \in 1..Len(fin.pal) :
                    group(fin.pal[j]) = fout.grp =>
                        euclidian_dist(fin.pal[i], fin.c)
                            <= euclidian_dist(fin.pal[j], fin.c)

(***************************************************************************)
(* subdivide on its own.  It is generic in the element type: the elements  *)
(* here are the indices 1..n themselves, so that a slice shows which       *)
(* positions of the input it covers.                                       *)
(***************************************************************************)
InitSubdivide ==
    /\ mapper = "Nearest"
    /\ palette = NORD
    /\ threads = "Auto"
    /\ image = <<>>
    /\ progress = FALSE
    /\ trk = NoTracker
    /\ chan = 0
    /\ IdleRun
    /\ NoMemo
    /\ fin \in [op : {"subdivide"},
                pixels : {[i \in 1..n |-> i] : n \in 0..MaxLen},
                times : 0..MaxTimes]
    /\ fout = <<>>

Call_subdivide ==
    /\ fin.op = "subdivide"
    /\ fout = <<>>
    /\ fout' = subdivide(fin.pixels, fin.times)
    /\ UNCHANGED <<procVars, memoVars, fin>>

NextSubdivide == Call_subdivide

SpecSubdivide == InitSubdivide /\ [][NextSubdivide]_vars

\* the slices, two by two, put back together
Merged(slices) ==
    [j \in 1..(Len(slices) \div 2) |-> slices[2 * j - 1] \o slices[2 * j]]

\* every level of the splitting cut each slice at len / 2
RECURSIVE MidpointSplit(_)
MidpointSplit(slices) ==
    IF Len(slices) <= 1 THEN TRUE
    ELSE /\ Len(slices) % 2 = 0
         /\ \A j \in 1..(Len(slices) \div 2) :
               Len(slices[2 * j - 1])
                   = (Len(slices[2 * j - 1]) + Len(slices[2 * j])) \div 2
         /\ MidpointSplit(Merged(slices))

\* C13: for every length, zero and lengths below 2^t included, subdivide
\* returns exactly 2^t slices, each level cut at the midpoint len / 2, which
\* laid end to end give back the input: they cover consecutive index ranges
\* in index order without overlap.
C13_SubdivideSlices ==
    (fout # <<>> /\ fin.op = "subdivide") =>
        /\ Len(fout) = 2 ^ fin.times
        /\ MidpointSplit(fout)
        /\ Flatten(fout) = fin.pixels
        /\ \A j \in 1..Len(fout) :
              \A i \in 1..Len(fout[j]) :
                  fout[j][i] = Len(Flatten(SubSeq(fout, 1, j - 1))) + i

\* C13 witness: an input shorter than 2^t was cut into 2^t slices, some of
\* them empty, some not.
C13_Witness ==
    /\ fout # <<>>
    /\ fin.op = "subdivide"
    /\ fin.times >= 2
    /\ Len(fin.pixels) >= 3
    /\ Len(fin.pixels) < 2 ^ fin.times
    /\ Len(fout) = 2 ^ fin.times
    /\ \E j \in 1..Len(fout) : fout[j] = <<>>
    /\ \E j \in 1..Len(fout) : Len(fout[j]) >= 1

(***************************************************************************)
(* palette.rs: Rgbx::step_towards and Rgbx::gradient                       *)
(***************************************************************************)
\* u8::saturating_sub / u8::saturating_add
saturating_sub(a, b) == IF a - b < 0 THEN 0 ELSE a - b
saturating_add(a, b) == IF a + b > 255 THEN 255 ELSE a + b

\* (a variant that does not stop at the target)
step_towards_val_overshoot(orig, target, step) ==
    IF orig = target THEN orig
    ELSE IF orig > target THEN saturating_sub(orig, step)
    ELSE saturating_add(orig, step)

step_towards_val(orig, target, step) ==
    IF orig = target THEN orig
    ELSE IF orig > target
        THEN LET x == saturating_sub(orig, step)
             IN  IF x < target THEN target ELSE x
    ELSE LET x == saturating_add(orig, step)
         IN  IF x > target THEN target ELSE x

step_towards(self, other, step) ==
    <<step_towards_val(self[1], other[1], step),
      step_towards_val(self[2], other[2], step),
      step_towards_val(self[3], other[3], step),
      group(other)>>

\* start and end points: those of test::gradient, the corners of the channel
\* range, and a colour in between
GradColours == { <<255, 204, 204, "Blues">>, <<102, 0, 0, "Blues">>,
                 <<0, 0, 0, "Greys">>, <<255, 255, 255, "Whites">>,
                 <<3, 250, 128, "Green">> }

InitGradient ==
    /\ mapper = "Nearest"
    /\ palette = NORD
    /\ threads = "Auto"
    /\ image = <<>>
    /\ progress = FALSE
    /\ trk = NoTracker
    /\ chan = 0
    /\ IdleRun
    /\ NoMemo
    /\ fin \in [op : {"gradient"}, start : GradColours, end : GradColours,
                step : U8 \ {0}]
    /\ fout = <<>>

\* the first turn of the loop: `vals.push(*self); continue;`
gradient_first ==
    /\ fin.op = "gradient"
    /\ fout = <<>>
    /\ fout' = [vals |-> <<fin.start>>, done |-> FALSE]
    /\ UNCHANGED <<procVars, memoVars, fin>>

\* a later turn: push the step from the last value; break when it equals
\* the end point
gradient_next ==
    /\ fin.op = "gradient"
    /\ fout # <<>>
    /\ ~fout.done
    /\ LET next == step_towards(fout.vals[Len(fout.vals)], fin.end, fin.step)
       IN  fout' = [vals |-> Append(fout.vals, next),
                    done |-> (next = fin.end)]
    /\ UNCHANGED <<procVars, memoVars, fin>>

NextGradient == gradient_first \/ gradient_next

SpecGradient == InitGradient /\ [][NextGradient]_vars

\* the loop runs on one thread, which keeps taking turns until the break
SpecGradientFair == SpecGradient /\ WF_vars(NextGradient)

\* channel v moved to w, toward target t, by at most step and not past t
MovedToward(v, w, t, step) ==
    /\ abs_diff(v, w) <= step
    /\ abs_diff(w, t) <= abs_diff(v, t)
    /\ (v <= t => (v <= w /\ w <= t))
    /\ (v >= t => (t <= w /\ w <= v))
    /\ (v # t => w # v)

\* C15: for every start colour, end colour and nonzero step: gradient
\* terminates; each step moves every channel toward the target, by at most
\* step and never past it; the sequence begins with the start colour and,
\* once returned, ends with a value equal to the end colour.
C15_GradientTerminates ==
    /\ <>(fout # <<>> /\ fout.done)
    /\ [](fout # <<>> =>
            /\ fout.vals[1] = fin.start
            /\ fout.done => fout.vals[Len(fout.vals)] = fin.end)
    /\ [][(fout # <<>> /\ fout' # fout) =>
            LET last == fout.vals[Len(fout.vals)]
                next == fout'.vals[Len(fout'.vals)]
            IN  /\ Len(fout'.vals) = Len(fout.vals) + 1
                /\ \A ch \in 1..3 :
                      MovedToward(last[ch], next[ch], fin.end[ch], fin.step)]_vars

\* C15 witness: a gradient between different colours has returned after
\* several steps, the last of which was cut short at the target.
C15_Witness ==
    /\ fout # <<>>
    /\ fout.done
    /\ fin.start # fin.end
    /\ Len(fout.vals) >= 4
    /\ \E ch \in 1..3 :
          LET before == fout.vals[Len(fout.vals) - 1][ch]
          IN  /\ before # fin.end[ch]
              /\ abs_diff(before, fin.end[ch]) < fin.step

(***************************************************************************)
(* palette.rs: Rgbx::diff_rating on its own                                *)
(***************************************************************************)
ChannelVals == {0, 1, 2, 127, 254, 255}

InitRating ==
    /\ mapper = "Nearest"
    /\ palette = NORD
    /\ threads = "Auto"
    /\ image = <<>>
    /\ progress = FALSE
    /\ trk = NoTracker
    /\ chan = 0
    /\ IdleRun
    /\ NoMemo
    /\ fin \in [op : {"diff_rating"},
                self : ChannelVals \X ChannelVals \X ChannelVals \X {"Greys"},
                px : ChannelVals \X ChannelVals \X ChannelVals \X {255}]
    /\ fout = <<>>

Call_diff_rating ==
    /\ fin.op = "diff_rating"
    /\ fout = <<>>
    /\ fout' = Some(diff_rating(fin.self, fin.px))
    /\ UNCHANGED <<procVars, memoVars, fin>>

NextRating == Call_diff_rating

SpecRating == InitRating /\ [][NextRating]_vars

\* q is x / 3 rounded toward zero
IsTruncThird(q, x) ==
    LET r == x - 3 * q
    IN  /\ r \in -2..2
        /\ (x >= 0 => r >= 0)
        /\ (x <= 0 => r <= 0)

\* C16: diff_rating is (R_p - R_in) + (G_p - G_in) + (B_p - B_in) / 3, the
\* division taken on the blue term alone and rounded toward zero, and the
\* exact value lies within the range of i16.
C16_DiffRating ==
    (fout # <<>> /\ fin.op = "diff_rating") =>
        LET dr == fin.self[1] - fin.px[1]
            dg == fin.self[2] - fin.px[2]
            db == fin.self[3] - fin.px[3]
        IN  /\ IsTruncThird(fout[1] - dr - dg, db)
            /\ fout[1] >= -(2 ^ 15)
            /\ fout[1] <= 2 ^ 15 - 1
            /\ dr + dg + db >= -(2 ^ 15)
            /\ dr + dg + db <= 2 ^ 15 - 1

\* C16 witness: the rating at the bottom of its range, with a negative blue
\* term that 3 does not divide.
C16_Witness ==
    /\ fout # <<>>
    /\ fin.op = "diff_rating"
    /\ fin.self[1] - fin.px[1] = -255
    /\ fin.self[2] - fin.px[2] = -255
    /\ fin.self[3] - fin.px[3] = -254
    /\ fout[1] = -594

\* C17 (as claimed): sending a progress signal never faults a worker: a
\* worker panics only when the strategy panics on the pixel it is mapping,
\* whether the Tracker is polled, left alone or dropped.
C17_SignalNeverFaults ==
    [][\A w \in Workers :
          (pc \in {"join", "unwind"} /\ pc' = pc
               /\ wstate[w] = "run" /\ wstate'[w] = "panicked")
              => Predict(mapper, palette, parts[w][Mapped(w) + 1]) = PANIC]_vars

====
